---------------------------- MODULE Spec2Model ----------------------------
(***************************************************************************)
(* Context search of the AnalyticDB vector store                           *)
(* (server/knowledge_base/kb_service/AnalyticDB.py,                        *)
(* my_similarity_search_with_score_by_vector_context): the nearest chunks  *)
(* of a query are the seeds; each seed is widened left and right along the *)
(* chunk ids, pass by pass, candidate by candidate, into one shared id_set;*)
(* the id_set is then merged into runs of consecutive ids and every run    *)
(* becomes one scored document.                                            *)
(*                                                                         *)
(* One behaviour is one query against one collection table.  A chunk's     *)
(* text is a sequence of tokens (its own id, repeated), so that            *)
(* concatenation and len() are the real operations on sequences.           *)
(***************************************************************************)
EXTENDS Integers, Sequences, FiniteSets, TLC

\* ------------------------------------------------------------- bounds
\* The ids a row of the collection table may carry (the table's id column
\* is autoincrement; deleted documents leave gaps).
Ids == {1, 2, 3, 13}
\* Text lengths of a chunk: short, long, longer than the budget.
DocLens == {1, 2, 5}
\* Distances of a chunk to the query vector are 1..MaxDist.
MaxDist == 2
\* The caller's k is 1..MaxK.
MaxK == 2
\* self.chunk_size = CONTENT_SIZE, a value of the configuration: the length
\* a seed's window may reach.
chunk_size == 3
\* The versions of a document that update_doc is given are 1..MaxVer.
MaxVer == 2

\* ------------------------------------------------- program constants
\* range(10, max_id + batch_size, batch_size): the first half-width.
FirstWidth == 10
\* batch_size = 20
batch_size == 20
\* sys.maxsize, the mark "this direction is no longer stitched".
maxsize == 2147483647

\* md_headers of text_splitter.markdown_splitter: the metadata keys of the
\* heading levels, outermost first.
md_headers == <<"head1", "head2">>
HeaderNames == {md_headers[h] : h \in 1..Len(md_headers)}
\* A metadata dict is a function on the heading keys; Absent says the key
\* is not in the dict.
Absent == "absent"

FileA == [base |-> "a", ext |-> ".md"]
FileB == [base |-> "b", ext |-> ".txt"]
NoHeads == [h \in HeaderNames |-> Absent]
Metas ==
    { NoHeads,
      [NoHeads EXCEPT !["head1"] = "x"],
      [NoHeads EXCEPT !["head1"] = "y"],
      [NoHeads EXCEPT !["head1"] = "x", !["head2"] = "y"] }

\* The rows a table may hold, in three families: rows of two files with
\* every length, all at one distance; rows of the markdown file under every
\* heading; rows of one file at every distance.
PlainRows ==
    { [filename |-> f, len |-> l, metadata |-> NoHeads, distance |-> 1]
        : f \in {FileA, FileB}, l \in DocLens }
MdRows ==
    { [filename |-> FileA, len |-> 1, metadata |-> m, distance |-> 1]
        : m \in Metas }
NearRows ==
    { [filename |-> FileA, len |-> l, metadata |-> NoHeads, distance |-> d]
        : l \in {1, 2}, d \in 1..MaxDist }

VARIABLES
    store,            \* the collection table: id -> row
    pc,               \* where the search is
    results,          \* the nearest-neighbour hits (ids), nearest first
    max_id, min_id,
    id_set, id_map,
    n,                \* position of `result` in results (for result in results)
    docs_len, last_l, last_r, width,
    left_results, right_results, i, j,
    id_seqs, documents_with_scores,
    ctx,              \* history: seed position -> ids its expansion absorbed
    dead,             \* history: sides marked exhausted so far for this seed
    ev,               \* history: what the last step of the merge-walk did
    reads,            \* history: the ranges read so far for this seed
    built,            \* whether AnalyticDB(...) has returned an object
    collection_name,  \* self.__collection_name
    collection_table, \* self.__collection_table, by the name of its table
    base_metadata,    \* the tables registered in Base.metadata
    tables,           \* the tables that exist in the database
    chunks,           \* table -> its rows, as update_doc sees them
    ret               \* history: the last call on the object and its outcome

vars == << store, pc, results, max_id, min_id, id_set, id_map, n, docs_len,
           last_l, last_r, width, left_results, right_results, i, j,
           id_seqs, documents_with_scores, ctx, dead, ev, reads,
           built, collection_name, collection_table, base_metadata, tables,
           chunks, ret >>

\* The table being searched and the locals of the search, which the calls
\* that build and bind the object leave alone.
searchvars == << store, pc, results, max_id, min_id, id_set, id_map, n,
                 docs_len, last_l, last_r, width, left_results,
                 right_results, i, j, id_seqs, documents_with_scores, ctx,
                 dead, ev, reads >>

\* The object and the database, which a search leaves alone.
kbvars == << built, collection_name, collection_table, base_metadata,
             tables, chunks, ret >>

\* ------------------------------------------------------------ helpers
Min2(a, b) == IF a <= b THEN a ELSE b
SetMax(S) == CHOOSE x \in S : \A y \in S : y <= x
SetMin(S) == CHOOSE x \in S : \A y \in S : x <= y

\* A row as the database returns it.
Row(id, c) ==
    [id |-> id, document |-> [p \in 1..c.len |-> id], metadata |-> c.metadata,
     filename |-> c.filename, distance |-> c.distance]

\* str.lower() on the extension of a file name.
Lower(ext) == IF ext = ".MD" THEN ".md" ELSE ext
\* t_result.filename.lower().endswith(".md")
IsMarkdown(filename) == Lower(filename.ext) = ".md"

\* The history record of the last step of the current merge-walk: what it
\* did with which candidate of which side for which seed, and the side
\* marks, the length and the membership of the candidate in id_set it found.
NoEvent ==
    [kind |-> "none", left |-> FALSE, id |-> 0, seed |-> 0, dead |-> {},
     len |-> 0, seen |-> FALSE]


\* The history record of one range scan: its side and its id range.
RangeRead(is_left, range) ==
    [left |-> is_left, lo |-> range[1], hi |-> range[2]]

\* Python's None.
None == "None"

\* The history record of the last call on the object; no call yet.
NoCall == [op |-> "none", out |-> "none", arg |-> "none"]

\* ------------------------------------------------- the database reads
RECURSIVE Ascending(_)
\* ORDER BY id
Ascending(S) ==
    IF S = {} THEN << >>
    ELSE LET m == SetMin(S) IN << m >> \o Ascending(S \ {m})

RECURSIVE Descending(_)
\* ORDER BY id DESC
Descending(S) ==
    IF S = {} THEN << >>
    ELSE LET m == SetMax(S) IN << m >> \o Descending(S \ {m})

\* Faulty variant of IdsBetween: the lower bound is left out of the range.
IdsBetween_Exclusive(lo, hi) == {x \in DOMAIN store : lo < x /\ x <= hi}

\* WHERE id >= lo AND id <= hi
IdsBetween(lo, hi) == {x \in DOMAIN store : lo <= x /\ x <= hi}

\* SELECT ... WHERE <filter> ORDER BY embedding <-> :embedding LIMIT :k.
\* M is the set of rows the filter condition admits (every row without a
\* filter); rows at the same distance come in any order.
get_search_result_from_database(M, k) ==
    LET size == Min2(k, Cardinality(M))
    IN  { s \in [1..size -> M] :
            /\ \A a, b \in 1..size : a < b =>
                   /\ s[a] # s[b]
                   /\ store[s[a]].distance <= store[s[b]].distance
            /\ \A a \in 1..size : \A x \in M \ {s[b] : b \in 1..size} :
                   store[s[a]].distance <= store[x].distance }

\* Faulty variant of MaxId: the None of an empty table, shown as -1, is
\* not replaced by 0.
MaxId_Unset == IF DOMAIN store = {} THEN -1 ELSE SetMax(DOMAIN store)

\* func.max(id), None on an empty table and then 0
MaxId == IF DOMAIN store = {} THEN 0 ELSE SetMax(DOMAIN store)
\* func.min(id)
MinId == IF DOMAIN store = {} THEN 0 ELSE SetMin(DOMAIN store)

\* ------------------------------------------------- the merge-walk
\* Faulty variant of TakeRight: at equal distance the left one is taken.
TakeRight_LeftOnTie(L, R, li, rj) ==
    IF li >= Len(L) THEN TRUE
    ELSE IF rj >= Len(R) THEN FALSE
    ELSE store[R[rj + 1]].distance < store[L[li + 1]].distance

\* Which of the two current candidates the walk takes: the right one when
\* the left batch is used up, the left one when the right batch is, and
\* otherwise the nearer one, the right one at equal distance.
TakeRight(L, R, li, rj) ==
    IF li >= Len(L) THEN TRUE
    ELSE IF rj >= Len(R) THEN FALSE
    ELSE store[R[rj + 1]].distance <= store[L[li + 1]].distance

\* Faulty variant of TooLongOrOtherFile: the length is tested as it stands, the
\* candidate not yet counted.
TooLongOrOtherFile_CheckedAfter(t, result, dl) ==
    \/ dl > chunk_size
    \/ store[t].filename # store[result].filename

\* docs_len + len(t_result.document) > self.chunk_size
\*     or t_result.filename != result.filename
TooLongOrOtherFile(t, result, dl) ==
    \/ dl + Len(store[t].document) > chunk_size
    \/ store[t].filename # store[result].filename

\* Faulty variant of HeaderConflict: a key missing on the candidate is let
\* through.
HeaderConflict_OnlyDiffering(tm, rm) ==
    \E h \in 1..Len(md_headers) :
        LET header == md_headers[h]
        IN  /\ tm[header] # Absent
            /\ rm[header] # Absent
            /\ tm[header] # rm[header]

\* The loop over md_headers: some heading key of the seed differs on the
\* candidate, or is missing on it.
HeaderConflict(tm, rm) ==
    \E h \in 1..Len(md_headers) :
        LET header == md_headers[h]
        IN  \/ /\ tm[header] # Absent
               /\ rm[header] # Absent
               /\ tm[header] # rm[header]
            \/ /\ rm[header] # Absent
               /\ tm[header] = Absent

\* The candidate closes its direction.
Rejected(t, result, dl) ==
    \/ TooLongOrOtherFile(t, result, dl)
    \/ /\ IsMarkdown(store[t].filename)
       /\ HeaderConflict(store[t].metadata, store[result].metadata)

\* Faulty variant of Outcome: the test `t_result.id in id_set` is missing.
Outcome_NoSkip(t, result, dl, ids) ==
    IF Rejected(t, result, dl) THEN "reject" ELSE "absorb"

\* What the walk does with a candidate: a rejected one closes its
\* direction, one already in id_set is passed over, any other is absorbed.
Outcome(t, result, dl, ids) ==
    IF Rejected(t, result, dl) THEN "reject"
    ELSE IF t \in ids THEN "skip"
    ELSE "absorb"

\* Faulty variant of Grown: the absorbed text is not counted.
Grown_NotCounted(dl, t) == dl

\* docs_len += len(t_result.document)
Grown(dl, t) == dl + Len(store[t].document)

\* Faulty variant of SeedLen: the window starts empty, the seed not counted.
SeedLen_Zero(result) == 0

\* docs_len = len(result.document)
SeedLen(result) == Len(store[result].document)

\* id_map[id] = row
Put(map, id) ==
    [x \in DOMAIN map \cup {id} |-> IF x = id THEN store[id] ELSE map[x]]

\* ------------------------------------------------- merge and assemble
RECURSIVE Scan_DropsLast(_, _, _)
\* Faulty variant of Scan: the run still open at the end of the scan is not
\* closed.
Scan_DropsLast(rest, run, runs) ==
    IF rest = << >> THEN runs
    ELSE IF Head(rest) = run[Len(run)] + 1
         THEN Scan_DropsLast(Tail(rest), Append(run, Head(rest)), runs)
         ELSE Scan_DropsLast(Tail(rest), << Head(rest) >>, Append(runs, run))

RECURSIVE Scan(_, _, _)
\* One scan of the sorted ids: an id one greater than the last of the
\* current run extends it, any other id closes it and starts the next.
Scan(rest, run, runs) ==
    IF rest = << >> THEN Append(runs, run)
    ELSE IF Head(rest) = run[Len(run)] + 1
         THEN Scan(Tail(rest), Append(run, Head(rest)), runs)
         ELSE Scan(Tail(rest), << Head(rest) >>, Append(runs, run))

\* merge_ids(id_set): the runs of consecutive ids, ascending.
merge_ids(ids) ==
    IF ids = {} THEN << >>
    ELSE LET id_list == Ascending(ids)
         IN  Scan(Tail(id_list), << Head(id_list) >>, << >>)

RECURSIVE Concat(_, _)
\* The texts of a run, in id order, one after the other.
Concat(id_seq, map) ==
    IF id_seq = << >> THEN << >>
    ELSE map[Head(id_seq)].document \o Concat(Tail(id_seq), map)

\* The distance of the first row of a run.
RunScore_OfFirst(id_seq, map) == map[id_seq[1]].distance

\* The least distance among the rows of a run.
RunScore(id_seq, map) ==
    LET ds == {map[id_seq[p]].distance : p \in 1..Len(id_seq)}
    IN  SetMin(ds)

RECURSIVE InsertByScore(_, _)
\* Insert doc into a list ordered by score, after the docs of equal score.
InsertByScore(doc, docs) ==
    IF docs = << >> THEN << doc >>
    ELSE IF doc.score < Head(docs).score THEN << doc >> \o docs
         ELSE << Head(docs) >> \o InsertByScore(doc, Tail(docs))

RECURSIVE SortByScore(_)
SortByScore(docs) ==
    IF docs = << >> THEN << >>
    ELSE InsertByScore(docs[Len(docs)],
                       SortByScore(SubSeq(docs, 1, Len(docs) - 1)))

\* generate_doc_with_score(id_seqs, id_map): one document per run, its text
\* the run's texts concatenated, its score the run's least distance; the
\* list ordered by score, best first.
generate_doc_with_score(seqs, map) ==
    SortByScore([r \in 1..Len(seqs) |->
        [ids |-> seqs[r],
         page_content |-> Concat(seqs[r], map),
         score |-> RunScore(seqs[r], map)]])


\* ------------------------------------------------------------- states
NoLocals ==
    /\ results = << >> /\ max_id = 0 /\ min_id = 0
    /\ id_set = {} /\ id_map = << >> /\ n = 0
    /\ docs_len = 0 /\ last_l = 0 /\ last_r = 0 /\ width = 0
    /\ left_results = << >> /\ right_results = << >> /\ i = 0 /\ j = 0
    /\ id_seqs = << >> /\ documents_with_scores = << >>
    /\ ctx = << >> /\ dead = {} /\ ev = NoEvent /\ reads = << >>

\* The object is built and bound to the collection whose rows are in store.
Bound ==
    /\ built = "yes"
    /\ collection_name = "kb1" /\ collection_table = "kb1"
    /\ base_metadata = {"kb1"} /\ tables = {"kb1"}
    /\ chunks = [t \in {"kb1"} |-> {}]
    /\ ret = NoCall

\* A collection table with rows at some of the ids, and no search running.
Init ==
    /\ \E S \in SUBSET Ids :
         \E c \in [S -> PlainRows] \cup [S -> MdRows] \cup [S -> NearRows] :
            store = [x \in S |-> Row(x, c[x])]
    /\ pc = "idle"
    /\ NoLocals
    /\ Bound

\* The seed of the current iteration of `for result in results`.
result == results[n]

\* Lines 447-464: the nearest-neighbour query, the id bounds of the table,
\* the empty accumulation state.
Search ==
    /\ pc = "idle"
    /\ collection_table # None
    /\ \E k \in 1..MaxK, M \in SUBSET DOMAIN store :
          results' \in get_search_result_from_database(M, k)
    /\ max_id' = MaxId
    /\ min_id' = MinId
    /\ id_set' = {}
    /\ id_map' = << >>
    /\ n' = 1
    /\ ctx' = [p \in 1..Len(results') |-> {}]
    /\ pc' = "seed"
    /\ reads' = << >>
    /\ UNCHANGED << store, docs_len, last_l, last_r, width, left_results,
                    right_results, i, j, id_seqs, documents_with_scores,
                    dead, ev >>
    /\ UNCHANGED kbvars

\* Lines 466-477: the next seed enters the accumulation state; its window
\* starts as the seed alone.
NextSeed ==
    /\ pc = "seed"
    /\ n <= Len(results)
    /\ id_set' = id_set \cup {result}
    /\ id_map' = Put(id_map, result)
    /\ docs_len' = SeedLen(result)
    /\ last_l' = result - 1
    /\ last_r' = result + 1
    /\ width' = FirstWidth
    /\ dead' = {}
    /\ ev' = NoEvent
    /\ pc' = "pass"
    /\ reads' = << >>
    /\ UNCHANGED << store, results, max_id, min_id, n, left_results,
                    right_results, i, j, id_seqs, documents_with_scores, ctx >>
    /\ UNCHANGED kbvars

\* The expansion of this seed is over: on to the next one.
SeedDone ==
    /\ n' = n + 1
    /\ pc' = "seed"

\* Lines 477-519: one iteration of `for width in range(...)` up to the
\* merge-walk: the loop ends when the widths are used up, breaks when both
\* ranges lie outside the table's ids, and otherwise reads both ranges.
BeginPass ==
    /\ pc = "pass"
    /\ IF width >= max_id + batch_size
          \/ (last_l < min_id /\ last_r > max_id)
       THEN /\ SeedDone
            /\ UNCHANGED << left_results, right_results, i, j, dead, ev,
                            reads >>
       ELSE LET left_range == << result - width, last_l >>
                right_range == << last_r, result + width >>
                lr == Descending(IdsBetween(left_range[1], left_range[2]))
                rr == Ascending(IdsBetween(right_range[1], right_range[2]))
            IN  /\ left_results' = lr
                /\ right_results' = rr
                /\ i' = IF Len(lr) = 0 THEN maxsize ELSE 0
                /\ j' = IF Len(rr) = 0 THEN maxsize ELSE 0
                /\ dead' = dead \cup (IF Len(lr) = 0 THEN {"L"} ELSE {})
                                \cup (IF Len(rr) = 0 THEN {"R"} ELSE {})
                /\ ev' = NoEvent
                /\ reads' = reads \o << RangeRead(TRUE, left_range),
                                        RangeRead(FALSE, right_range) >>
                /\ pc' = "walk"
                /\ n' = n
    /\ UNCHANGED << store, results, max_id, min_id, id_set, id_map, docs_len,
                    last_l, last_r, width, id_seqs, documents_with_scores,
                    ctx >>
    /\ UNCHANGED kbvars

\* Lines 487-505: conn.execute raises; nothing in the search catches it, so
\* the exception leaves the search and its locals are gone.
ReadError ==
    /\ pc = "pass"
    /\ ~ (width >= max_id + batch_size \/ (last_l < min_id /\ last_r > max_id))
    /\ pc' = "failed"
    /\ results' = << >> /\ max_id' = 0 /\ min_id' = 0
    /\ id_set' = {} /\ id_map' = << >> /\ n' = 0
    /\ docs_len' = 0 /\ last_l' = 0 /\ last_r' = 0 /\ width' = 0
    /\ left_results' = << >> /\ right_results' = << >> /\ i' = 0 /\ j' = 0
    /\ ctx' = << >> /\ dead' = {}
    /\ ev' = [NoEvent EXCEPT !.kind = "error"]
    /\ reads' = << >>
    /\ UNCHANGED << store, id_seqs, documents_with_scores >>
    /\ UNCHANGED kbvars

\* Lines 520-569: one iteration of the merge-walk.
WalkStep ==
    /\ pc = "walk"
    /\ i < Len(left_results) \/ j < Len(right_results)
    /\ LET is_left == ~ TakeRight(left_results, right_results, i, j)
           t_result == IF is_left THEN left_results[i + 1]
                                  ELSE right_results[j + 1]
           i1 == IF is_left THEN i + 1 ELSE i
           j1 == IF is_left THEN j ELSE j + 1
           side == IF is_left THEN "L" ELSE "R"
           todo == Outcome(t_result, result, docs_len, id_set)
           event(kind) == [kind |-> kind, left |-> is_left, id |-> t_result,
                           seed |-> result, dead |-> dead, len |-> docs_len,
                           seen |-> t_result \in id_set]
       IN  IF todo = "reject"
           THEN /\ i' = IF is_left THEN maxsize ELSE i1
                /\ j' = IF is_left THEN j1 ELSE maxsize
                /\ dead' = dead \cup {side}
                /\ ev' = event("reject")
                /\ UNCHANGED << docs_len, id_set, id_map, ctx >>
           ELSE IF todo = "skip"
           THEN /\ i' = i1
                /\ j' = j1
                /\ ev' = event("skip")
                /\ UNCHANGED << docs_len, id_set, id_map, ctx, dead >>
           ELSE /\ i' = i1
                /\ j' = j1
                /\ docs_len' = Grown(docs_len, t_result)
                /\ id_set' = id_set \cup {t_result}
                /\ id_map' = Put(id_map, t_result)
                /\ ctx' = [ctx EXCEPT ![n] = @ \cup {t_result}]
                /\ ev' = event("absorb")
                /\ UNCHANGED dead
    /\ UNCHANGED << store, pc, results, max_id, min_id, n, last_l, last_r,
                    width, left_results, right_results,
                    id_seqs, documents_with_scores, reads >>
    /\ UNCHANGED kbvars

\* Lines 571-576: after the merge-walk: break when both directions are
\* closed, else move both cursors past the ranges read and widen.
EndPass ==
    /\ pc = "walk"
    /\ ~ (i < Len(left_results) \/ j < Len(right_results))
    /\ IF i = maxsize /\ j = maxsize
       THEN /\ SeedDone
            /\ UNCHANGED << last_l, last_r, width >>
       ELSE /\ last_l' = result - width - 1
            /\ last_r' = result + width + 1
            /\ width' = width + batch_size
            /\ pc' = "pass"
            /\ n' = n
    /\ UNCHANGED << store, results, max_id, min_id, id_set, id_map, docs_len,
                    left_results, right_results, i, j,
                    id_seqs, documents_with_scores, ctx, dead, ev, reads >>
    /\ UNCHANGED kbvars

\* Lines 580-586: every seed is done: merge the ids and build the documents.
Finish ==
    /\ pc = "seed"
    /\ n > Len(results)
    /\ IF Cardinality(id_set) = 0
       THEN /\ documents_with_scores' = << >>
            /\ UNCHANGED id_seqs
       ELSE /\ id_seqs' = merge_ids(id_set)
            /\ documents_with_scores' =
                   generate_doc_with_score(id_seqs', id_map)
    /\ pc' = "done"
    /\ UNCHANGED << store, results, max_id, min_id, id_set, id_map, n,
                    docs_len, last_l, last_r, width, left_results,
                    right_results, i, j, ctx, dead, ev, reads >>
    /\ UNCHANGED kbvars

Next ==
    \/ Search
    \/ NextSeed
    \/ BeginPass
    \/ ReadError
    \/ WalkStep
    \/ EndPass
    \/ Finish

Spec == Init /\ [][Next]_vars


\* A table whose ids reach further, so that a seed has a third pass: rows
\* of one file at some of the ids 1, 2, 13 and 33.
WideIds == {1, 2, 13, 33}

InitWide ==
    /\ \E S \in SUBSET WideIds : \E c \in [S -> NearRows] :
          store = [x \in S |-> Row(x, c[x])]
    /\ pc = "idle"
    /\ NoLocals
    /\ Bound

\* The search never stops between two steps of its code.
SpecWide == InitWide /\ [][Next]_vars /\ WF_vars(Next)

\* ------------------------------------------- the object and its tables
DEFAULT_KNOWLEDGE_BASE_TABLE_NAME == "knowledge_base"
DEFAULT_FILE_TABLE_NAME == "knowledge_file"

\* The names a caller passes to set_collection_name.
Names ==
    {"kb1", "kb2", DEFAULT_KNOWLEDGE_BASE_TABLE_NAME, DEFAULT_FILE_TABLE_NAME}

\* The sources of the documents a caller updates: two paths to files of
\* one name.
Sources == {[dir |-> "d1", name |-> "a.md"], [dir |-> "d2", name |-> "a.md"]}

\* The file name of a source path.
get_filename_from_source(source) == source.name

\* The chunks of version ver of the document at source.
Chunk(source, ver) ==
    [source |-> source, filename |-> get_filename_from_source(source),
     ver |-> ver]

\* The outcome of a call, for the history.
Call(op, arg, out) == [op |-> op, out |-> out, arg |-> arg]

\* No object yet, an idle search, and a database that holds some of the
\* collections, empty.
KbInit ==
    /\ store = << >>
    /\ pc = "idle"
    /\ NoLocals
    /\ built = "no"
    /\ collection_name = None /\ collection_table = None
    /\ base_metadata = {}
    /\ tables \in SUBSET {"kb1", "kb2"}
    /\ chunks = [t \in tables |-> {}]
    /\ ret = NoCall

\* Lines 169-171: delete_collection raises when no table is bound.
DeleteCollectionRaises == collection_table = None

\* Lines 50-104: __init__ unbinds name and table, __post_init__ calls
\* init_collection, which calls delete_collection when pre_delete_collection
\* is set; its exception leaves the constructor and there is no object.
AnalyticDB ==
    /\ built \in {"no", "raised"}
    /\ \E pre_delete_collection \in BOOLEAN :
          /\ collection_name' = None
          /\ collection_table' = None
          /\ IF pre_delete_collection /\ collection_table' = None
             THEN /\ built' = "raised"
                  /\ ret' = Call("init", pre_delete_collection, "raise")
             ELSE /\ built' = "yes"
                  /\ ret' = Call("init", pre_delete_collection, "ok")
    /\ UNCHANGED << base_metadata, tables, chunks >>
    /\ UNCHANGED searchvars

\* Lines 169-179: drop the bound table, forget it and unbind; a failing
\* drop changes nothing.
delete_collection ==
    /\ built = "yes"
    /\ IF DeleteCollectionRaises
       THEN /\ ret' = Call("delete_collection", None, "raise")
            /\ UNCHANGED << collection_name, collection_table,
                            base_metadata, tables, chunks >>
       ELSE \/ /\ ret' = Call("delete_collection", None, "raise")
               /\ UNCHANGED << collection_name, collection_table,
                               base_metadata, tables, chunks >>
            \/ /\ tables' = tables \ {collection_table}
               /\ chunks' = [t \in tables' |-> chunks[t]]
               /\ base_metadata' = base_metadata \ {collection_table}
               /\ collection_name' = None
               /\ collection_table' = None
               /\ ret' = Call("delete_collection", None, "ok")
    /\ UNCHANGED built
    /\ UNCHANGED searchvars

\* Lines 116-119: create_table_if_not_exists refuses the names of the two
\* statistics tables.
ReservedName(name) ==
    name \in {DEFAULT_KNOWLEDGE_BASE_TABLE_NAME, DEFAULT_FILE_TABLE_NAME}

\* Lines 181-185 and 112-167: forget the bound table, set the name, then
\* create and bind the table of that name. create_table_if_not_exists
\* raises for a reserved name before it declares the table, and the
\* database can fail after; either way the name is already set and the
\* bound table is the one from before.
set_collection_name ==
    /\ built = "yes"
    /\ \E name \in Names :
          LET forgotten == IF collection_table # None
                           THEN base_metadata \ {collection_table}
                           ELSE base_metadata
          IN  /\ collection_name' = name
              /\ IF ReservedName(collection_name')
                 THEN /\ base_metadata' = forgotten
                      /\ ret' = Call("set_collection_name", name, "raise")
                      /\ UNCHANGED << collection_table, tables, chunks >>
                 ELSE \/ /\ base_metadata' = forgotten \cup {name}
                         /\ ret' = Call("set_collection_name", name, "raise")
                         /\ UNCHANGED << collection_table, tables, chunks >>
                      \/ /\ base_metadata' = forgotten \cup {name}
                         /\ tables' = tables \cup {name}
                         /\ chunks' = [t \in tables' |->
                                          IF t \in tables THEN chunks[t]
                                          ELSE {}]
                         /\ collection_table' = name
                         /\ ret' = Call("set_collection_name", name, "ok")
    /\ UNCHANGED built
    /\ UNCHANGED searchvars

\* Lines 224-226: the rows of the bound table whose filename is that of
\* the source.
MatchingIds(source) ==
    {c \in chunks[collection_table] :
        c.filename = get_filename_from_source(source)}

\* Lines 195-213: delete the rows; a store error is caught and gives False.
\* The result and the rows of the bound table after it.
delete(ids, err) ==
    IF err = "delete"
    THEN [ok |-> FALSE, rows |-> chunks[collection_table]]
    ELSE [ok |-> TRUE, rows |-> chunks[collection_table] \ ids]

\* Lines 218-246, with a table bound: select the ids of the source's rows
\* and delete them; a store error in the select is caught, and so "docs
\* delete fail" is the answer to an error, to no row and to a failed delete.
delete_doc(source, err) ==
    IF err = "select" \/ MatchingIds(source) = {}
    THEN [out |-> "docs delete fail", rows |-> chunks[collection_table]]
    ELSE LET d == delete(MatchingIds(source), err)
         IN  [out |-> IF d.ok THEN "docs delete success"
                      ELSE "docs delete fail",
              rows |-> d.rows]

\* Lines 248-255: delete_doc, whose answer is not looked at, then
\* add_documents, then "docs update success"; an exception of either
\* (delete_doc with no table bound, add_texts without a source in the
\* metadata or with a failing insert) gives "docs update fail".
update_doc ==
    /\ built = "yes"
    /\ \E source \in Sources, ver \in 1..MaxVer,
          err \in {"none", "select", "delete", "insert"},
          has_source \in BOOLEAN :
          LET arg == [source |-> source, ver |-> ver] IN
          IF collection_table = None
          THEN /\ ret' = Call("update_doc", arg, "docs update fail")
               /\ UNCHANGED chunks
          ELSE /\ \A c \in chunks[collection_table] :
                     c.source = source => c.ver # ver
               /\ LET delete_len == delete_doc(source, err)
                  IN  IF err = "insert" \/ ~ has_source
                      THEN /\ chunks' = [chunks EXCEPT
                                  ![collection_table] = delete_len.rows]
                           /\ ret' = Call("update_doc", arg,
                                          "docs update fail")
                      ELSE /\ chunks' = [chunks EXCEPT
                                  ![collection_table] =
                                      delete_len.rows
                                          \cup {Chunk(source, ver)}]
                           /\ ret' = Call("update_doc", arg,
                                          "docs update success")
    /\ UNCHANGED << built, collection_name, collection_table, base_metadata,
                    tables >>
    /\ UNCHANGED searchvars

KbNext ==
    \/ AnalyticDB
    \/ delete_collection
    \/ set_collection_name
    \/ update_doc

KbSpec == KbInit /\ [][KbNext]_vars

\* ------------------------------------------------------------- claims
\* What the claims speak of.
Side(e) == IF e.left THEN "L" ELSE "R"
Walked(e) == e.kind \in {"absorb", "skip", "reject"}
Searching == pc \in {"seed", "pass", "walk", "done"}
Expanding == pc \in {"pass", "walk"}
TextLen(id) == Len(store[id].document)

RECURSIVE SumLen(_)
SumLen(S) ==
    IF S = {} THEN 0
    ELSE LET x == CHOOSE y \in S : TRUE IN TextLen(x) + SumLen(S \ {x})

\* The window of the seed at position p: the seed and what it absorbed.
Window(p) == {results[p]} \cup ctx[p]
Elems(seq) == {seq[p] : p \in 1..Len(seq)}
SeedsFit == \A p \in DOMAIN ctx : TextLen(results[p]) <= chunk_size

\* C1: once every seed is expanded and the ids are merged, no run holds
\* chunks of two different files, whatever the table and the seeds.
C1_NoRunMixesFiles ==
    pc = "done" =>
        \A r \in 1..Len(id_seqs) : \A a, b \in Elems(id_seqs[r]) :
            store[a].filename = store[b].filename

\* C2: a direction marked exhausted for a seed (an empty batch, a rejected
\* candidate) absorbs nothing more for that seed, in this pass or a later
\* one.
C2_ExhaustedSideAbsorbsNoMore ==
    ev.kind = "absorb" => Side(ev) \notin ev.dead

\* C9: a read error in a seed's range scans ends that seed's expansion
\* only: the seed stays in id_set and the search goes on to the next seed.
C9_ReadErrorEndsOnlyTheSeed ==
    ev.kind = "error" =>
        /\ pc = "seed"
        /\ n - 1 \in DOMAIN results
        /\ results[n - 1] \in id_set


\* C3 as stated: with every seed within the budget, every document is
\* within the budget, also when windows coalesce into one run.
C3_DocumentWithinBudget ==
    (pc = "done" /\ SeedsFit) =>
        \A d \in 1..Len(documents_with_scores) :
            Len(documents_with_scores[d].page_content) <= chunk_size

\* C3 as amended: the budget bounds the window of one seed (the seed and
\* what its own expansion absorbed), for every seed within the budget; a
\* document is at most as long as the windows that meet its run together.
C3_WindowWithinBudget ==
    /\ \A p \in DOMAIN ctx :
          TextLen(results[p]) <= chunk_size =>
              TextLen(results[p]) + SumLen(ctx[p]) <= chunk_size
    /\ (pc = "done" /\ SeedsFit) =>
          \A d \in 1..Len(documents_with_scores) :
              LET doc == documents_with_scores[d]
                  met == {p \in DOMAIN ctx : Window(p) \cap Elems(doc.ids) # {}}
              IN  Len(doc.page_content) <= chunk_size * Cardinality(met)

\* Witness of C3: the windows of seeds within the budget have coalesced
\* into a document longer than the budget.
C3_CoalescedOverBudget ==
    /\ pc = "done"
    /\ SeedsFit
    /\ \E d \in 1..Len(documents_with_scores) :
          Len(documents_with_scores[d].page_content) > chunk_size

\* C4 as stated: docs_len is never above the budget by more than the
\* length of the candidate whose rejection closed a direction.
C4_OverBudgetAtMostByRejected ==
    ev.kind = "reject" => docs_len <= chunk_size + TextLen(ev.id)

\* C4 as amended: docs_len never exceeds the budget for a seed within the
\* budget and stays at the seed's length for a longer seed; the budget is
\* tested before absorbing: an absorbed candidate fits, a candidate that
\* would not fit is rejected, and a rejection leaves docs_len as it was.
C4_BudgetCheckedBeforeAbsorbing ==
    /\ Expanding =>
          docs_len <= IF TextLen(result) <= chunk_size THEN chunk_size
                      ELSE TextLen(result)
    /\ ev.kind = "absorb" =>
          /\ docs_len = ev.len + TextLen(ev.id)
          /\ docs_len <= chunk_size
    /\ ev.kind = "reject" => docs_len = ev.len
    /\ (Walked(ev) /\ ev.len + TextLen(ev.id) > chunk_size) =>
          ev.kind = "reject"

\* Witness of C4: a candidate of the seed's file was rejected because it
\* would not fit, with the window within the budget.
C4_RejectedForLength ==
    /\ ev.kind = "reject"
    /\ store[ev.id].filename = store[ev.seed].filename
    /\ ev.len <= chunk_size
    /\ ev.len + TextLen(ev.id) > chunk_size
    /\ docs_len = ev.len

\* A candidate agrees with a seed: every heading key of the seed is on the
\* candidate with the same value.
Agrees(x, s) ==
    \A h \in HeaderNames :
        store[s].metadata[h] # Absent =>
            store[x].metadata[h] = store[s].metadata[h]

\* A candidate fails one of the tests made before the test for id_set.
Fails(e) ==
    \/ e.len + TextLen(e.id) > chunk_size
    \/ store[e.id].filename # store[e.seed].filename
    \/ (store[e.id].filename.ext \in {".md", ".MD"} /\ ~ Agrees(e.id, e.seed))

\* The side of the last step is marked in i or j.
Marked(e) == IF e.left THEN i = maxsize ELSE j = maxsize

\* C5 as stated: a candidate already in id_set is passed over whatever its
\* length, file or headings: it closes no direction and adds no length.
C5_SeenCandidateAlwaysSkipped ==
    (Walked(ev) /\ ev.seen) =>
        /\ ev.kind = "skip"
        /\ docs_len = ev.len
        /\ dead = ev.dead

\* C5 as amended: a candidate already in id_set never adds length; it is
\* passed over, closing no direction, when it passes the tests of length,
\* file and headings, and is rejected, closing its direction, when it
\* fails one of them.
C5_SeenCandidateSkippedIfItPasses ==
    (Walked(ev) /\ ev.seen) =>
        /\ docs_len = ev.len
        /\ IF Fails(ev)
           THEN ev.kind = "reject" /\ Side(ev) \in dead /\ Marked(ev)
           ELSE ev.kind = "skip" /\ dead = ev.dead /\ ~ Marked(ev)

\* Witness of C5: a candidate already in id_set was passed over.
C5_SeenCandidateSkipped ==
    ev.kind = "skip" /\ ev.seen /\ ~ Marked(ev)

\* C6: nothing a markdown seed absorbed conflicts with the seed's headings,
\* and a candidate that differs on a heading key of the seed or lacks it is
\* rejected and closes its direction.
C6_AbsorbedHeadingsAgree ==
    /\ \A p \in DOMAIN ctx :
          IsMarkdown(store[results[p]].filename) =>
              \A x \in ctx[p] : Agrees(x, results[p])
    /\ (Walked(ev) /\ IsMarkdown(store[ev.seed].filename)
            /\ ~ Agrees(ev.id, ev.seed)) =>
          ev.kind = "reject" /\ Side(ev) \in dead /\ Marked(ev)

\* Witness of C6: a markdown seed under a heading absorbed a chunk.
C6_AbsorbedUnderHeading ==
    \E p \in DOMAIN ctx :
        /\ IsMarkdown(store[results[p]].filename)
        /\ store[results[p]].metadata["head1"] # Absent
        /\ ctx[p] # {}

\* C7: the runs partition id_set: together they are id_set, no id is in two
\* runs, every run is consecutive, and no run starts right after another.
C7_RunsPartitionIdSet ==
    pc = "done" =>
        LET R == 1..Len(id_seqs) IN
        /\ UNION {Elems(id_seqs[r]) : r \in R} = id_set
        /\ \A r \in R :
              /\ Len(id_seqs[r]) >= 1
              /\ \A a \in 1..(Len(id_seqs[r]) - 1) :
                    id_seqs[r][a + 1] = id_seqs[r][a] + 1
        /\ \A r1, r2 \in R :
              r1 # r2 => Elems(id_seqs[r1]) \cap Elems(id_seqs[r2]) = {}
        /\ \A r1, r2 \in R :
              id_seqs[r1][Len(id_seqs[r1])] + 1 # id_seqs[r2][1]

\* Witness of C7: several runs, one of them of several ids.
C7_SeveralRuns ==
    /\ pc = "done"
    /\ Len(id_seqs) >= 2
    /\ \E r \in 1..Len(id_seqs) : Len(id_seqs[r]) >= 2


\* The windows of the seeds at p and q meet: they share an id, or an id of
\* one comes right after an id of the other.
Meet(p, q) ==
    \E a \in Window(p), b \in Window(q) : a = b \/ a = b + 1 \/ b = a + 1

Docs == 1..Len(documents_with_scores)
DocIds(d) == Elems(documents_with_scores[d].ids)

\* C8 as stated: two seeds whose windows meet are in exactly one document,
\* which spans both and whose score is the lesser of their distances; every
\* document's score is the least distance among its ids, and the documents
\* are ordered by score, ascending.
C8_MeetingSeedsShareOneDocument ==
    pc = "done" =>
        /\ \A p, q \in DOMAIN ctx :
              (p < q /\ Meet(p, q)) =>
                  \E d \in Docs :
                      /\ {results[p], results[q]} \subseteq DocIds(d)
                      /\ \A e \in Docs \ {d} :
                            DocIds(e) \cap {results[p], results[q]} = {}
                      /\ documents_with_scores[d].score =
                            Min2(store[results[p]].distance,
                                 store[results[q]].distance)
        /\ \A d \in Docs :
              /\ \E x \in DocIds(d) :
                    documents_with_scores[d].score = id_map[x].distance
              /\ \A x \in DocIds(d) :
                    documents_with_scores[d].score <= id_map[x].distance
        /\ \A d, e \in Docs :
              d < e => documents_with_scores[d].score
                          <= documents_with_scores[e].score

\* Every id from the seed at p to the seed at q is in id_set.
Joined(p, q) ==
    LET lo == Min2(results[p], results[q])
        hi == results[p] + results[q] - lo
    IN  lo..hi \subseteq id_set

\* C8 as amended: two seeds with every id from one to the other in id_set
\* are in exactly one document, whose score is at most the lesser of their
\* distances; every document's score is the least distance among its ids,
\* and the documents are ordered by score, ascending.
C8_JoinedSeedsShareOneDocument ==
    pc = "done" =>
        /\ \A p, q \in DOMAIN ctx :
              (p < q /\ Joined(p, q)) =>
                  \E d \in Docs :
                      /\ {results[p], results[q]} \subseteq DocIds(d)
                      /\ \A e \in Docs \ {d} :
                            DocIds(e) \cap {results[p], results[q]} = {}
                      /\ documents_with_scores[d].score <=
                            Min2(store[results[p]].distance,
                                 store[results[q]].distance)
        /\ \A d \in Docs :
              /\ \E x \in DocIds(d) :
                    documents_with_scores[d].score = id_map[x].distance
              /\ \A x \in DocIds(d) :
                    documents_with_scores[d].score <= id_map[x].distance
        /\ \A d, e \in Docs :
              d < e => documents_with_scores[d].score
                          <= documents_with_scores[e].score

\* Witness of C8: two seeds and the chunk between them, absorbed as context
\* and nearer than both, in one document that has the chunk's distance.
C8_SeedsMeetInTheMiddle ==
    /\ pc = "done"
    /\ \E p, q \in DOMAIN ctx, d \in Docs :
          /\ results[q] = results[p] + 2
          /\ results[p] + 1 \in ctx[p] \cup ctx[q]
          /\ DocIds(d) = {results[p], results[p] + 1, results[q]}
          /\ documents_with_scores[d].score = store[results[p] + 1].distance
          /\ documents_with_scores[d].score
                < Min2(store[results[p]].distance,
                       store[results[q]].distance)

\* C10 as stated: a seed longer than the budget absorbs nothing and is a
\* document of its own, of that one chunk, whatever the other seeds are.
C10_LongSeedIsItsOwnDocument ==
    pc = "done" =>
        \A p \in DOMAIN ctx :
            TextLen(results[p]) > chunk_size =>
                /\ ctx[p] = {}
                /\ \E d \in Docs :
                      documents_with_scores[d].ids = << results[p] >>

\* C10 as amended: a seed longer than the budget absorbs nothing and no
\* other seed absorbs it; it is emitted in exactly one document, which is
\* the seed alone unless the id before or after it is in id_set through
\* another seed, and then that document is the run they form together.
C10_LongSeedAbsorbsNothing ==
    \A p \in DOMAIN ctx :
        TextLen(results[p]) > chunk_size =>
            /\ ctx[p] = {}
            /\ \A q \in DOMAIN ctx : results[p] \notin ctx[q]
            /\ pc = "done" =>
                  \E d \in Docs :
                      /\ results[p] \in DocIds(d)
                      /\ \A e \in Docs \ {d} : results[p] \notin DocIds(e)
                      /\ (documents_with_scores[d].ids = << results[p] >>)
                            <=> (id_set \cap {results[p] - 1, results[p] + 1}
                                    = {})

\* Witness of C10: a seed longer than the budget beside another seed, and
\* the document of the two together.
C10_LongSeedBesideAnotherSeed ==
    /\ pc = "done"
    /\ \E p, q \in DOMAIN ctx :
          /\ TextLen(results[p]) > chunk_size
          /\ results[q] = results[p] + 1
          /\ ctx[p] = {}
          /\ \E d \in Docs : {results[p], results[q]} \subseteq DocIds(d)


\* C11: a search whose nearest-neighbour query has no hit, on an empty
\* collection too (its id bounds are then 0), reads no range, never enters
\* an expansion, where alone it could fail, and returns no document.
C11_NoHitNoScanNoDocument ==
    (Searching /\ results = << >>) =>
        /\ pc \in {"seed", "done"}
        /\ reads = << >>
        /\ id_set = {}
        /\ DOMAIN store = {} => (max_id = 0 /\ min_id = 0)
        /\ pc = "done" => documents_with_scores = << >>

\* Witness of C11: a search of an empty collection has returned.
C11_EmptyCollectionSearched ==
    /\ pc = "done"
    /\ DOMAIN store = {}
    /\ results = << >>
    /\ documents_with_scores = << >>


\* C12: building the object with pre_delete_collection set does not fail:
\* the constructor returns a usable object, also when no collection is
\* bound or exists yet.
C12_PreDeleteBuildsTheObject ==
    (ret.op = "init" /\ ret.arg) => (ret.out = "ok" /\ built = "yes")


\* Lines 375-385: the nearest-neighbour query reads FROM the table named
\* by self.__collection_name.
KnnTable == collection_name
\* Lines 447-456 and 487-505: the id bounds and the range scans read
\* self.__collection_table.
ScanTable == collection_table

\* C16: after any calls of set_collection_name and delete_collection, the
\* failing ones too, the bound name and the bound table are of one
\* collection (both unset, or the table is the one the name names), so
\* that the nearest-neighbour query and the range scans read one table.
C16_NameAndTableAgree ==
    built = "yes" => KnnTable = ScanTable

\* C17: when update_doc has answered "docs update success", the bound
\* table holds no chunk of an earlier version of that source.
C17_SuccessLeavesNoOldChunk ==
    (ret.op = "update_doc" /\ ret.out = "docs update success") =>
        \A c \in chunks[collection_table] :
            c.source = ret.arg.source => c.ver = ret.arg.ver


\* Every row of the table is of one file and under the same headings, the
\* ids have no gap, and all the text together is within the budget.
OneShortDocument ==
    /\ DOMAIN store # {}
    /\ DOMAIN store = MinId..MaxId
    /\ \A x, y \in DOMAIN store :
          /\ store[x].filename = store[y].filename
          /\ Agrees(x, y)
    /\ SumLen(DOMAIN store) <= chunk_size

\* C13: in a pass each side's candidates come in order of their id's
\* distance from the seed; a step takes the candidate nearer to the query
\* vector when both sides have one, the right one at equal distance, and
\* the one there is when a single side has one; and with all neighbours in
\* one document and the total within the budget, everything is absorbed
\* and merged into one run.
C13_WalkTakesNearerRightOnTie ==
    /\ [](pc = "walk" =>
            /\ \A a \in 1..Len(left_results) :
                  /\ left_results[a] < result
                  /\ a > 1 => left_results[a] < left_results[a - 1]
            /\ \A a \in 1..Len(right_results) :
                  /\ right_results[a] > result
                  /\ a > 1 => right_results[a] > right_results[a - 1])
    /\ [][(pc = "walk" /\ pc' = "walk") =>
            LET hasL == i < Len(left_results)
                hasR == j < Len(right_results)
            IN  /\ hasL \/ hasR
                /\ (hasL /\ hasR) =>
                      /\ ev'.left <=>
                            store[left_results[i + 1]].distance
                                < store[right_results[j + 1]].distance
                /\ (hasL /\ ~ hasR) => ev'.left
                /\ (hasR /\ ~ hasL) => ~ ev'.left
                /\ ev'.left => ev'.id = left_results[i + 1]
                /\ ~ ev'.left => ev'.id = right_results[j + 1]]_vars
    /\ []((pc = "done" /\ results # << >> /\ OneShortDocument) =>
            /\ id_set = DOMAIN store
            /\ id_seqs = << Ascending(DOMAIN store) >>)

\* Witness of C13: with a candidate on each side at the same distance, the
\* walk has taken the right one and absorbed it; the left one still waits.
C13_RightTakenOnTie ==
    /\ pc = "walk"
    /\ ev.kind = "absorb" /\ ~ ev.left
    /\ i = 0 /\ Len(left_results) > 0
    /\ store[left_results[1]].distance = store[ev.id].distance


\* The passes that have read their ranges for the current seed.
Passes ==
    (width - FirstWidth) \div batch_size + (IF pc = "walk" THEN 1 ELSE 0)

\* The widest half-width read before pass p: 0, 10, 30, ...
WidthBefore(p) == IF p = 1 THEN 0 ELSE FirstWidth + (p - 2) * batch_size

\* The rows with an id in the range of a read.
RowsOf(read) == {x \in DOMAIN store : read.lo <= x /\ x <= read.hi}

\* C15: every pass of a seed reads two ranges, one on each side, that were
\* not read before for that seed: the left ranges are [id-10, id-1],
\* [id-30, id-11], ... and the right ones [id+1, id+10], [id+11, id+30],
\* ..., each starting where the one before ended, and the candidates of a
\* pass are the rows of the two ranges it read, so that no row is a
\* candidate for one seed twice.
C15_EachPassReadsTheNextRanges ==
    Expanding =>
        /\ Len(reads) = 2 * Passes
        /\ \A p \in 1..Passes :
              LET l == reads[2 * p - 1]
                  r == reads[2 * p]
              IN  /\ l.left /\ ~ r.left
                  /\ l.hi = result - WidthBefore(p) - 1
                  /\ l.lo = result - WidthBefore(p + 1)
                  /\ r.lo = result + WidthBefore(p) + 1
                  /\ r.hi = result + WidthBefore(p + 1)
                  /\ l.lo <= l.hi /\ r.lo <= r.hi
                  /\ \A q \in 1..(p - 1) :
                        /\ RowsOf(reads[2 * q - 1]) \cap RowsOf(l) = {}
                        /\ RowsOf(reads[2 * q]) \cap RowsOf(r) = {}
        /\ pc = "walk" =>
              /\ Elems(left_results) = RowsOf(reads[2 * Passes - 1])
              /\ Elems(right_results) = RowsOf(reads[2 * Passes])
              /\ Len(left_results) = Cardinality(Elems(left_results))
              /\ Len(right_results) = Cardinality(Elems(right_results))

\* Witness of C15: a second pass has read its two ranges and walks the
\* candidates of the wider range.
C15_SecondPassReadsFurther ==
    /\ pc = "walk"
    /\ Len(reads) = 4
    /\ reads[4].lo = result + FirstWidth + 1
    /\ right_results # << >>


\* The widths of `range(10, max_id + batch_size, batch_size)`.
NumWidths ==
    IF max_id + batch_size <= FirstWidth THEN 0
    ELSE (max_id + batch_size - FirstWidth - 1) \div batch_size + 1

\* C14: the widening loop of every seed ends: no pass reads its ranges
\* once both sides have been exhausted or with both cursors outside
\* [min_id, max_id], there are never more passes than widths 10, 30, ...
\* below max_id + 20, and every expansion, the merge-walks in it too, comes
\* to its end.
C14_LoopStopsOnceBothSidesExhausted ==
    /\ [][(pc = "pass" /\ pc' = "walk") =>
            /\ dead # {"L", "R"}
            /\ ~ (last_l < min_id /\ last_r > max_id)]_vars
    /\ [](Expanding => Passes <= NumWidths)
    /\ (Expanding ~> ~ Expanding)

=============================================================================
